---- MODULE Spec2Model ----
(***************************************************************************)
(* lifeboat (src/src/index.ts): composable runtime validators.             *)
(*                                                                         *)
(* A validator is an instance with a fixed configuration and one mutable   *)
(* field, lastError.  validate is modelled as a recursive operator over    *)
(* the instance table; checkType / assertType are the actions that write   *)
(* lastError.  Messages are built as the strings the code builds.          *)
(***************************************************************************)
EXTENDS Integers, Sequences, FiniteSets, TLC

VARIABLES root, lastError, last

vars == <<root, lastError, last>>

(***************************************************************************)
(* Bounds of the input space.                                              *)
(***************************************************************************)
\* longest generated array input
MaxLen == 2
\* number inputs are 2..MaxNum
MaxNum == 3

(***************************************************************************)
(* The dynamic value space: every value carries its kind in field t.       *)
(* Objects list their own enumerable properties in creation order.         *)
(***************************************************************************)
Undefined == [t |-> "undefined"]
Null == [t |-> "null"]
Bool(b) == [t |-> "boolean", b |-> b]
Num(n) == [t |-> "number", n |-> n]
BigInt(n) == [t |-> "bigint", n |-> n]
Str(s) == [t |-> "string", s |-> s]
Sym(d) == [t |-> "symbol", d |-> d]
Arr(items) == [t |-> "array", items |-> items]
\* cls is the name of the constructor the object inherits ("Object" for a
\* literal, "" for an object without prototype); cyclic marks an object that
\* refers to itself through one more property, which no model property shows
Obj(props) == [t |-> "object", props |-> props, cls |-> "Object", cyclic |-> FALSE]
Instance(cls) == [t |-> "object", props |-> <<>>, cls |-> cls, cyclic |-> FALSE]
Cyclic(props) == [t |-> "object", props |-> props, cls |-> "Object", cyclic |-> TRUE]

\* typeof val
TypeOf(val) ==
    IF val.t \in {"null", "array", "object"} THEN "object" ELSE val.t

\* Array.isArray(val)
IsArray(val) == val.t = "array"

\* a === b for a configured primitive b: objects and arrays are compared by
\* reference, and an input is never the very object a validator was built with
StrictEquals(a, b) ==
    /\ a.t \notin {"array", "object"}
    /\ a = b

\* the index i (0-based) as a property name
IndexKey(i) == ToString(i)

\* key in val, for val an object or an array
HasProp(val, key) ==
    IF val.t = "array"
    THEN key = "length" \/ \E i \in 1..Len(val.items) : key = IndexKey(i - 1)
    ELSE \E i \in 1..Len(val.props) : val.props[i][1] = key

\* val[key], undefined when the key is absent
GetProp(val, key) ==
    IF ~HasProp(val, key) THEN Undefined
    ELSE IF val.t = "array"
    THEN IF key = "length" THEN Num(Len(val.items))
         ELSE val.items[CHOOSE i \in 1..Len(val.items) : key = IndexKey(i - 1)]
    ELSE val.props[CHOOSE i \in 1..Len(val.props) : val.props[i][1] = key][2]

\* Array.prototype.join
RECURSIVE Join(_, _)
Join(strs, sep) ==
    IF Len(strs) = 0 THEN ""
    ELSE IF Len(strs) = 1 THEN strs[1]
    ELSE strs[1] \o sep \o Join(Tail(strs), sep)

(***************************************************************************)
(* JSON.stringify: a text, or undefined (for undefined and symbols), or a  *)
(* TypeError (a bigint or a cycle anywhere in the value).                  *)
(***************************************************************************)
JsonText(s) == [threw |-> FALSE, undef |-> FALSE, text |-> s]
JsonUndefined == [threw |-> FALSE, undef |-> TRUE, text |-> ""]
JsonThrow == [threw |-> TRUE, undef |-> FALSE, text |-> ""]

RECURSIVE JSONStringify(_)
JSONStringify(val) ==
    CASE val.t = "undefined" -> JsonUndefined
      [] val.t = "symbol" -> JsonUndefined
      [] val.t = "bigint" -> JsonThrow
      [] val.t = "null" -> JsonText("null")
      [] val.t = "boolean" -> JsonText(IF val.b THEN "true" ELSE "false")
      [] val.t = "number" -> JsonText(ToString(val.n))
      [] val.t = "string" -> JsonText("\"" \o val.s \o "\"")
      [] val.t = "array" ->
            LET parts == [i \in 1..Len(val.items) |-> JSONStringify(val.items[i])]
            IN  IF \E i \in 1..Len(parts) : parts[i].threw THEN JsonThrow
                ELSE JsonText("[" \o Join([i \in 1..Len(parts) |->
                        IF parts[i].undef THEN "null" ELSE parts[i].text], ",") \o "]")
      [] val.t = "object" ->
            LET parts == [i \in 1..Len(val.props) |-> JSONStringify(val.props[i][2])]
                kept == SelectSeq([i \in 1..Len(parts) |-> i], LAMBDA i : ~parts[i].undef)
            IN  IF val.cyclic \/ \E i \in 1..Len(parts) : parts[i].threw THEN JsonThrow
                ELSE JsonText("{" \o Join([j \in 1..Len(kept) |->
                        "\"" \o val.props[kept[j]][1] \o "\":" \o parts[kept[j]].text], ",")
                        \o "}")

\* `${x}` of a JSON.stringify result
Interpolate(js) == IF js.undef THEN "undefined" ELSE js.text

(***************************************************************************)
(* ValidationError                                                         *)
(***************************************************************************)
ValidationError(problem, path) == [problem |-> problem, path |-> path]

\* ValidationError.message
Message(err) ==
    IF Len(err.path) > 0
    THEN err.problem \o " ($" \o Join(err.path, "") \o ")"
    ELSE err.problem

\* wrapPath putting the outer segments after the inner ones
WrapPathAppend(err, outerPath) == [problem |-> err.problem, path |-> err.path \o outerPath]

\* ValidationError.wrapPath
WrapPath(err, outerPath) == ValidationError(err.problem, outerPath \o err.path)

\* the value of lastError before any rejection
NoError == [none |-> TRUE]

(***************************************************************************)
(* ValidationResult, extended with what the model observes of a call: the  *)
(* validate invocations it made, in order, and whether it raised.          *)
(***************************************************************************)
Valid(calls) == [valid |-> TRUE, threw |-> FALSE, error |-> NoError, calls |-> calls]
Invalid(error, calls) == [valid |-> FALSE, threw |-> FALSE, error |-> error, calls |-> calls]
Raised(calls) == [valid |-> FALSE, threw |-> TRUE, error |-> NoError, calls |-> calls]

\* valueDescriptor
\* valueDescriptor of the previous release: `type ${typeof val}` for every value
ValueDescriptorTypeof(value) == "type " \o TypeOf(value)

ValueDescriptor(value) ==
    IF value = Null THEN "null" ELSE "type " \o TypeOf(value)

(***************************************************************************)
(* Validator configurations, as the constructors store them.               *)
(***************************************************************************)
UnknownValidator == [kind |-> "unknown"]
ExactValidator(value) == [kind |-> "exact", value |-> value]
StringUnionValidator(values) == [kind |-> "stringUnion", values |-> values]
SimpleValidator(typeStr) == [kind |-> "simple", typeStr |-> typeStr]
\* structure: the pairs <<key, validator>> in the order for-in visits the keys
ObjectValidator(structure) == [kind |-> "object", structure |-> structure]
ArrayValidator(itemValidator) == [kind |-> "array", itemValidator |-> itemValidator]
UnionValidator(validator1, validator2) ==
    [kind |-> "union", validator1 |-> validator1, validator2 |-> validator2]
IntersectionValidator(validator1, validator2) ==
    [kind |-> "intersection", validator1 |-> validator1, validator2 |-> validator2]
NullableValidator(validator) == [kind |-> "nullable", validator |-> validator]
OptionalValidator(validator) == [kind |-> "optional", validator |-> validator]
InstanceOfValidator(Class) == [kind |-> "instanceof", Class |-> Class]

(***************************************************************************)
(* The instances under study, built with the ty factories.  An instance is *)
(* named by a string; a composite holds the names of its children, which   *)
(* are built before it.                                                    *)
(***************************************************************************)
\* ty.allowNullish(validator) written with ty.optional alone
AllowNullishOptionalOnly(id, validator) ==
    (id \o ".nullable" :> NullableValidator(validator)) @@
    (id :> OptionalValidator(validator))

\* ty.allowNullish(validator): the two instances the call constructs, the
\* returned one under id
AllowNullish(id, validator) ==
    (id \o ".nullable" :> NullableValidator(validator)) @@
    (id :> OptionalValidator(id \o ".nullable"))

Validators ==
    ("undefined" :> SimpleValidator("undefined")) @@
    ("boolean" :> SimpleValidator("boolean")) @@
    ("number" :> SimpleValidator("number")) @@
    ("bigint" :> SimpleValidator("bigint")) @@
    ("string" :> SimpleValidator("string")) @@
    ("symbol" :> SimpleValidator("symbol")) @@
    ("unknown" :> UnknownValidator) @@
    ("equals2" :> ExactValidator(Num(2))) @@
    ("stringUnion" :> StringUnionValidator(<<"a", "b">>)) @@
    ("stringUnionC" :> StringUnionValidator(<<"c">>)) @@
    ("instanceofDate" :> InstanceOfValidator("Date")) @@
    ("optNumber" :> OptionalValidator("number")) @@
    ("nullNumber" :> NullableValidator("number")) @@
    AllowNullish("allowNullish", "number") @@
    ("optNullNumber" :> OptionalValidator("nullNumber")) @@
    ("unionSN" :> UnionValidator("string", "number")) @@
    ("never" :> IntersectionValidator("string", "number")) @@
    ("inner" :> ObjectValidator(<< <<"val3", "number">> >>)) @@
    ("objEmpty" :> ObjectValidator(<< >>)) @@
    AllowNullish("nullishInner", "inner") @@
    ("nullInner" :> NullableValidator("inner")) @@
    ("optNullInner" :> OptionalValidator("nullInner")) @@
    ("objA" :> ObjectValidator(<< <<"val1", "number">> >>)) @@
    ("objB" :> ObjectValidator(<< <<"val2", "number">> >>)) @@
    ("objNN" :> ObjectValidator(<< <<"val1", "number">>, <<"val2", "number">> >>)) @@
    ("objNested" :> ObjectValidator(<< <<"val1", "number">>, <<"val2", "inner">> >>)) @@
    ("objOpt" :> ObjectValidator(<< <<"val1", "optNumber">>, <<"val2", "unknown">> >>)) @@
    ("objNullish" :>
        ObjectValidator(<< <<"val1", "nullNumber">>, <<"val2", "allowNullish">> >>)) @@
    ("interObj" :> IntersectionValidator("objA", "objB")) @@
    ("arrNumber" :> ArrayValidator("number")) @@
    ("arrNever" :> ArrayValidator("never")) @@
    ("arrEquals" :> ArrayValidator("equals2")) @@
    ("arrInner" :> ArrayValidator("inner")) @@
    ("arrArr" :> ArrayValidator("arrNumber")) @@
    ("objArr" :> ObjectValidator(<< <<"val1", "number">>, <<"val2", "arrInner">> >>)) @@
    ("wrapI" :> IntersectionValidator("unknown", "arrInner")) @@
    ("wrapN" :> NullableValidator("wrapI")) @@
    ("wrapO" :> OptionalValidator("wrapN")) @@
    ("objWrapped" :> ObjectValidator(<< <<"val2", "wrapO">> >>)) @@
    ("unionObjArr" :> UnionValidator("inner", "arrNumber")) @@
    ("unionNever" :> UnionValidator("never", "equals2")) @@
    ("objUnion" :> ObjectValidator(<< <<"val1", "unionObjArr">> >>)) @@
    ("arrUnion" :> ArrayValidator("unionObjArr"))

Ids == DOMAIN Validators

(***************************************************************************)
(* validate, one operator per class; Validate dispatches on the instance.  *)
(* Each returns the calls its children made; Validate puts its own first.  *)
(***************************************************************************)
RECURSIVE Validate(_, _)

\* UnknownValidator.validate
UnknownValidate(self, val) == Valid(<<>>)

\* ExactValidator.validate
ExactValidate(self, val) ==
    IF StrictEquals(val, self.value) THEN Valid(<<>>)
    ELSE LET expected == JSONStringify(self.value)
             found == JSONStringify(val)
         IN  IF expected.threw \/ found.threw THEN Raised(<<>>)
             ELSE Invalid(ValidationError(
                      "Expected " \o Interpolate(expected) \o ", found "
                          \o Interpolate(found), <<>>), <<>>)

\* the message with the members joined as they are, without JSON.stringify
StringUnionValidateUnquoted(self, val) ==
    IF TypeOf(val) # "string" \/ ~\E i \in 1..Len(self.values) : self.values[i] = val.s
    THEN LET found == JSONStringify(val)
         IN  IF found.threw THEN Raised(<<>>)
             ELSE Invalid([problem |-> "Expected one of [" \o Join(self.values, ", ")
                                           \o "], found " \o Interpolate(found),
                           path |-> <<>>], <<>>)
    ELSE Valid(<<>>)

\* StringUnionValidator.validate
StringUnionValidate(self, val) ==
    IF TypeOf(val) # "string" \/ ~\E i \in 1..Len(self.values) : self.values[i] = val.s
    THEN LET found == JSONStringify(val)
         IN  IF found.threw THEN Raised(<<>>)
             ELSE Invalid(ValidationError(
                      "Expected one of ["
                          \o Join([i \in 1..Len(self.values) |->
                                  Interpolate(JSONStringify(Str(self.values[i])))], ", ")
                          \o "], found " \o Interpolate(found), <<>>), <<>>)
    ELSE Valid(<<>>)

\* SimpleValidator.validate
SimpleValidate(self, val) ==
    IF TypeOf(val) = self.typeStr THEN Valid(<<>>)
    ELSE Invalid(ValidationError(
             "Expected type " \o self.typeStr \o ", found " \o ValueDescriptor(val),
             <<>>), <<>>)

\* the loop without the `in` test: an absent key is validated as undefined
RECURSIVE ObjectLoopNoInTest(_, _, _, _)
ObjectLoopNoInTest(structure, val, k, calls) ==
    IF k > Len(structure) THEN Valid(calls)
    ELSE LET key == structure[k][1]
             res == Validate(structure[k][2], GetProp(val, key))
         IN  IF res.threw THEN Raised(calls \o res.calls)
             ELSE IF ~res.valid
             THEN Invalid([problem |-> res.error.problem,
                           path |-> <<"." \o key>> \o res.error.path],
                          calls \o res.calls)
             ELSE ObjectLoopNoInTest(structure, val, k + 1, calls \o res.calls)

\* the for-in loop of ObjectValidator.validate, from the k-th key on
RECURSIVE ObjectLoop(_, _, _, _)
ObjectLoop(structure, val, k, calls) ==
    IF k > Len(structure) THEN Valid(calls)
    ELSE LET key == structure[k][1]
         IN  IF ~HasProp(val, key)
             THEN Invalid(ValidationError(
                      "Missing required property \"" \o key \o "\"", <<>>), calls)
             ELSE LET res == Validate(structure[k][2], GetProp(val, key))
                  IN  IF res.threw THEN Raised(calls \o res.calls)
                      ELSE IF ~res.valid
                      THEN Invalid(WrapPath(res.error, <<"." \o key>>),
                                   calls \o res.calls)
                      ELSE ObjectLoop(structure, val, k + 1, calls \o res.calls)

\* the loop of the first release: over the input's own entries, skipping the
\* keys the structure does not list
RECURSIVE ObjectLoopEntries(_, _, _, _)
ObjectLoopEntries(structure, val, k, calls) ==
    IF k > Len(val.props) THEN Valid(calls)
    ELSE LET key == val.props[k][1]
             listed == {j \in 1..Len(structure) : structure[j][1] = key}
         IN  IF listed = {} THEN ObjectLoopEntries(structure, val, k + 1, calls)
             ELSE LET res == Validate(structure[CHOOSE j \in listed : TRUE][2],
                                      val.props[k][2])
                  IN  IF res.threw THEN Raised(calls \o res.calls)
                      ELSE IF res.valid
                      THEN ObjectLoopEntries(structure, val, k + 1, calls \o res.calls)
                      ELSE Invalid([problem |-> res.error.problem,
                                    path |-> <<"." \o key>> \o res.error.path],
                                   calls \o res.calls)

\* ObjectValidator.validate of the first release
ObjectValidateEntries(self, val) ==
    IF TypeOf(val) # "object" \/ val = Null
    THEN Invalid([problem |-> "Expected an object, found " \o ValueDescriptor(val),
                  path |-> <<>>], <<>>)
    ELSE IF val.t = "array" THEN ObjectLoop(self.structure, val, 1, <<>>)
    ELSE ObjectLoopEntries(self.structure, val, 1, <<>>)

\* a closed object validator: a property the structure does not list is rejected
ObjectValidateClosed(self, val) ==
    IF TypeOf(val) # "object" \/ val = Null
    THEN Invalid([problem |-> "Expected an object, found " \o ValueDescriptor(val),
                  path |-> <<>>], <<>>)
    ELSE LET res == ObjectLoop(self.structure, val, 1, <<>>)
             unlisted == IF val.t = "array" THEN {}
                         ELSE {k \in 1..Len(val.props) :
                                 \A j \in 1..Len(self.structure) :
                                     self.structure[j][1] # val.props[k][1]}
         IN  IF res.valid /\ unlisted # {}
             THEN Invalid([problem |-> "Unexpected property", path |-> <<>>], res.calls)
             ELSE res

\* ObjectValidator.validate
ObjectValidate(self, val) ==
    IF TypeOf(val) # "object" \/ val = Null
    THEN Invalid(ValidationError(
             "Expected an object, found " \o ValueDescriptor(val), <<>>), <<>>)
    ELSE ObjectLoop(self.structure, val, 1, <<>>)

\* the index loop naming the elements from 1
RECURSIVE ArrayLoopOneBased(_, _, _, _)
ArrayLoopOneBased(itemValidator, items, k, calls) ==
    IF k > Len(items) THEN Valid(calls)
    ELSE LET res == Validate(itemValidator, items[k])
         IN  IF res.threw THEN Raised(calls \o res.calls)
             ELSE IF res.valid
             THEN ArrayLoopOneBased(itemValidator, items, k + 1, calls \o res.calls)
             ELSE Invalid([problem |-> res.error.problem,
                           path |-> <<"[" \o ToString(k) \o "]">> \o res.error.path],
                          calls \o res.calls)

\* the index loop of ArrayValidator.validate, from the k-th element on
RECURSIVE ArrayLoop(_, _, _, _)
ArrayLoop(itemValidator, items, k, calls) ==
    IF k > Len(items) THEN Valid(calls)
    ELSE LET res == Validate(itemValidator, items[k])
         IN  IF res.threw THEN Raised(calls \o res.calls)
             ELSE IF res.valid
             THEN ArrayLoop(itemValidator, items, k + 1, calls \o res.calls)
             ELSE Invalid(WrapPath(res.error, <<"[" \o IndexKey(k - 1) \o "]">>),
                          calls \o res.calls)

\* ArrayValidator.validate
ArrayValidate(self, val) ==
    IF ~IsArray(val)
    THEN Invalid(ValidationError(
             "Expected an array, found " \o ValueDescriptor(val), <<>>), <<>>)
    ELSE ArrayLoop(self.itemValidator, val.items, 1, <<>>)

\* a union combining the branches' problems, without their locations
UnionValidateProblems(self, val) ==
    LET res1 == Validate(self.validator1, val)
    IN  IF res1.threw THEN Raised(res1.calls)
        ELSE IF res1.valid THEN Valid(res1.calls)
        ELSE LET res2 == Validate(self.validator2, val)
                 calls == res1.calls \o res2.calls
             IN  IF res2.threw THEN Raised(calls)
                 ELSE IF res2.valid THEN Valid(calls)
                 ELSE Invalid([problem |->
                          "No validators were satisfied (" \o res1.error.problem
                              \o "; " \o res2.error.problem \o ")",
                          path |-> <<>>], calls)

\* a union that keeps its branches' locations as structure: the problems are
\* joined without their suffixes and the first branch's path is passed up
UnionValidateKeepPath(self, val) ==
    LET res1 == Validate(self.validator1, val)
    IN  IF res1.threw THEN Raised(res1.calls)
        ELSE IF res1.valid THEN Valid(res1.calls)
        ELSE LET res2 == Validate(self.validator2, val)
                 calls == res1.calls \o res2.calls
             IN  IF res2.threw THEN Raised(calls)
                 ELSE IF res2.valid THEN Valid(calls)
                 ELSE Invalid([problem |-> "No validators were satisfied ("
                                               \o res1.error.problem \o "; "
                                               \o res2.error.problem \o ")",
                               path |-> res1.error.path], calls)

\* UnionValidator.validate
UnionValidate(self, val) ==
    LET res1 == Validate(self.validator1, val)
    IN  IF res1.threw THEN Raised(res1.calls)
        ELSE IF res1.valid THEN Valid(res1.calls)
        ELSE LET res2 == Validate(self.validator2, val)
                 calls == res1.calls \o res2.calls
             IN  IF res2.threw THEN Raised(calls)
                 ELSE IF res2.valid THEN Valid(calls)
                 ELSE Invalid(ValidationError(
                          "No validators were satisfied (" \o Message(res1.error)
                              \o "; " \o Message(res2.error) \o ")", <<>>), calls)

\* an intersection that evaluates both validators before it looks at either
\* result and joins the two messages when both reject
IntersectionValidateBoth(self, val) ==
    LET res1 == Validate(self.validator1, val)
        res2 == Validate(self.validator2, val)
        calls == res1.calls \o res2.calls
    IN  IF res1.threw \/ res2.threw THEN Raised(calls)
        ELSE IF ~res1.valid /\ ~res2.valid
        THEN Invalid([problem |-> Message(res1.error) \o "; " \o Message(res2.error),
                      path |-> <<>>], calls)
        ELSE IF ~res1.valid THEN Invalid(res1.error, calls)
        ELSE IF ~res2.valid THEN Invalid(res2.error, calls)
        ELSE Valid(calls)

\* IntersectionValidator.validate
IntersectionValidate(self, val) ==
    LET res1 == Validate(self.validator1, val)
    IN  IF res1.threw \/ ~res1.valid THEN res1
        ELSE LET res2 == Validate(self.validator2, val)
             IN  [res2 EXCEPT !.calls = res1.calls \o res2.calls]

\* NullableValidator.validate
NullableValidate(self, val) ==
    IF val = Null THEN Valid(<<>>) ELSE Validate(self.validator, val)

\* the test written with loose equality, `val == undefined`, which null passes too
OptionalValidateLoose(self, val) ==
    IF val \in {Undefined, Null} THEN Valid(<<>>) ELSE Validate(self.validator, val)

\* OptionalValidator.validate
OptionalValidate(self, val) ==
    IF val = Undefined THEN Valid(<<>>) ELSE Validate(self.validator, val)

\* val?.constructor?.name, "" when there is none
ConstructorName(val) ==
    CASE val.t \in {"undefined", "null"} -> ""
      [] val.t = "boolean" -> "Boolean"
      [] val.t = "number" -> "Number"
      [] val.t = "bigint" -> "BigInt"
      [] val.t = "string" -> "String"
      [] val.t = "symbol" -> "Symbol"
      [] val.t = "array" -> "Array"
      [] val.t = "object" -> val.cls

\* InstanceOfValidator.validate
InstanceOfValidate(self, val) ==
    IF val.t = "object" /\ val.cls = self.Class THEN Valid(<<>>)
    ELSE LET actualConstructor == ConstructorName(val)
         IN  IF actualConstructor # ""
             THEN Invalid(ValidationError(
                      "Expected instance of " \o self.Class \o ", found instance of "
                          \o actualConstructor, <<>>), <<>>)
             \* `${val}` of an object without prototype is a TypeError
             ELSE IF val.t = "object" THEN Raised(<<>>)
             ELSE Invalid(ValidationError(
                      "Expected instance of " \o self.Class \o ", found " \o val.t,
                      <<>>), <<>>)

\* validator.validate(val): virtual dispatch on the instance's class
Validate(id, val) ==
    LET self == Validators[id]
        res == CASE self.kind = "unknown" -> UnknownValidate(self, val)
                 [] self.kind = "exact" -> ExactValidate(self, val)
                 [] self.kind = "stringUnion" -> StringUnionValidate(self, val)
                 [] self.kind = "simple" -> SimpleValidate(self, val)
                 [] self.kind = "object" -> ObjectValidate(self, val)
                 [] self.kind = "array" -> ArrayValidate(self, val)
                 [] self.kind = "union" -> UnionValidate(self, val)
                 [] self.kind = "intersection" -> IntersectionValidate(self, val)
                 [] self.kind = "nullable" -> NullableValidate(self, val)
                 [] self.kind = "optional" -> OptionalValidate(self, val)
                 [] self.kind = "instanceof" -> InstanceOfValidate(self, val)
    IN  [res EXCEPT !.calls = << <<id, val>> >> \o @]

(***************************************************************************)
(* Input values.                                                           *)
(***************************************************************************)
\* every sequence over elems of length 0..n
SeqsUpTo(elems, n) == UNION {[1..k -> elems] : k \in 0..n}

\* every property list that gives some of the keys, in their order, a value
RECURSIVE PropSeqs(_, _)
PropSeqs(keys, vals) ==
    IF Len(keys) = 0 THEN {<<>>}
    ELSE LET rest == PropSeqs(Tail(keys), vals)
         IN  rest \cup {<< <<Head(keys), v>> >> \o r : v \in vals, r \in rest}

Prims ==
    {Undefined, Null, Bool(TRUE), Str("a"), Str("c"), BigInt(10), Sym("s")}
        \cup {Num(n) : n \in 2..MaxNum}

InnerGood == Obj(<< <<"val3", Num(2)>> >>)
InnerBad == Obj(<< <<"val3", Str("a")>> >>)

Arrays ==
    {Arr(items) : items \in SeqsUpTo({Num(2), Str("a"), InnerGood, InnerBad}, MaxLen)}
        \cup {Arr(<<Arr(<<Num(2)>>), Arr(<<Num(2), Str("a")>>)>>),
              Arr(<<Undefined>>), Arr(<<BigInt(10)>>), Arr(<<Num(2), BigInt(10)>>)}

PropVals ==
    {Num(2), Str("a"), Undefined, Null, InnerGood, InnerBad,
     Arr(<<>>), Arr(<<InnerGood, InnerBad>>)}

Objects ==
    {Obj(p \o extra) : p \in PropSeqs(<<"val1", "val2">>, PropVals),
                       extra \in {<<>>, << <<"extra", Str("x")>> >>}}
        \cup {Obj(p) : p \in PropSeqs(<<"val2", "val1">>, {Num(2), Str("a")})}
        \cup {Obj(<<>>), InnerGood, InnerBad, Obj(<< <<"val1", BigInt(10)>> >>)}
        \cup {Instance("Date"), Instance(""), Cyclic(<<>>)}

Values == Prims \cup Arrays \cup Objects

(***************************************************************************)
(* The public API: reason, checkType (_check) and assertType (_assert).    *)
(* DoCheck and DoAssert map the lastError fields before a call to the call's   *)
(* outcome: the fields after it, what it returned or raised, and the       *)
(* messages it passed to onError.                                          *)
(***************************************************************************)
\* Validator.reason
Reason(err) == IF err = NoError THEN "Unknown reason" ELSE Message(err)

NoThrow == [class |-> "", message |-> ""]
\* the TypeError of JSON.stringify or of a template literal
TypeError == [class |-> "TypeError", message |-> ""]

\* new ValidationAssertionError(err, context)
ValidationAssertionError(err, context) ==
    [class |-> "ValidationAssertionError", message |-> context \o ": " \o Message(err)]

\* an absent optional argument
NoContext == [given |-> FALSE, text |-> ""]
Context(text) == [given |-> TRUE, text |-> text]
NoCallback == [op |-> "absent", val |-> Undefined]
\* onError callbacks: one that only receives the message, and ones that call
\* checkType / assertType on the same validator with val
Callback(op, val) == [op |-> op, val |-> val]

Outcome(le, ret, thrown, cbArgs) ==
    [lastError |-> le, ret |-> ret, thrown |-> thrown, cbArgs |-> cbArgs]

\* _assert with the default context of the first release
DoAssertOldDefault(le, id, val, context) ==
    LET cleared == [le EXCEPT ![id] = NoError]
        res == Validate(id, val)
    IN  IF res.threw THEN Outcome(cleared, "threw", TypeError, <<>>)
        ELSE IF ~res.valid
        THEN Outcome([cleared EXCEPT ![id] = res.error], "threw",
                     ValidationAssertionError(res.error,
                         IF context.given THEN context.text
                         ELSE "Validation assertion failed"),
                     <<>>)
        ELSE Outcome(cleared, "returned", NoThrow, <<>>)

\* Validator._assert
DoAssert(le, id, val, context) ==
    LET cleared == [le EXCEPT ![id] = NoError]
        res == Validate(id, val)
    IN  IF res.threw THEN Outcome(cleared, "threw", TypeError, <<>>)
        ELSE IF ~res.valid
        THEN Outcome([cleared EXCEPT ![id] = res.error], "threw",
                     ValidationAssertionError(res.error,
                         IF context.given THEN context.text
                         ELSE "Type assertion failed"),
                     <<>>)
        ELSE Outcome(cleared, "returned", NoThrow, <<>>)

RECURSIVE DoCheck(_, _, _, _)

\* onError?.(message), for the callbacks of the model
OnError(le, id, onError, message) ==
    CASE onError.op = "absent" -> Outcome(le, "returned", NoThrow, <<>>)
      [] onError.op = "noop" -> Outcome(le, "returned", NoThrow, <<message>>)
      [] onError.op = "check" ->
            [DoCheck(le, id, onError.val, NoCallback) EXCEPT !.cbArgs = <<message>>]
      [] onError.op = "assert" ->
            [DoAssert(le, id, onError.val, NoContext) EXCEPT !.cbArgs = <<message>>]

\* _check clearing the last error of every instance, not only of this one
DoCheckClearAll(le, id, val, onError) ==
    LET cleared == [i \in DOMAIN le |-> NoError]
        res == Validate(id, val)
    IN  IF res.threw THEN Outcome(cleared, "threw", TypeError, <<>>)
        ELSE IF ~res.valid
        THEN LET cb == OnError([cleared EXCEPT ![id] = res.error], id, onError,
                               Message(res.error))
             IN  IF cb.ret = "threw" THEN cb
                 ELSE Outcome(cb.lastError, "false", NoThrow, cb.cbArgs)
        ELSE Outcome(cleared, "true", NoThrow, <<>>)

\* _check handing onError the problem alone, without the rendered location
DoCheckProblemOnly(le, id, val, onError) ==
    LET cleared == [le EXCEPT ![id] = NoError]
        res == Validate(id, val)
    IN  IF res.threw THEN Outcome(cleared, "threw", TypeError, <<>>)
        ELSE IF ~res.valid
        THEN LET cb == OnError([cleared EXCEPT ![id] = res.error], id, onError,
                               res.error.problem)
             IN  IF cb.ret = "threw" THEN cb
                 ELSE Outcome(cb.lastError, "false", NoThrow, cb.cbArgs)
        ELSE Outcome(cleared, "true", NoThrow, <<>>)

\* _check when composites validate their children through _check: a rejection
\* is stored on every instance that took part in the call
DoCheckThroughChildren(le, id, val, onError) ==
    LET cleared == [le EXCEPT ![id] = NoError]
        res == Validate(id, val)
        called == {res.calls[k][1] : k \in 1..Len(res.calls)}
    IN  IF res.threw THEN Outcome(cleared, "threw", TypeError, <<>>)
        ELSE IF ~res.valid
        THEN LET stored == [i \in DOMAIN le |->
                               IF i \in called THEN res.error ELSE cleared[i]]
                 cb == OnError(stored, id, onError, Message(res.error))
             IN  IF cb.ret = "threw" THEN cb
                 ELSE Outcome(cb.lastError, "false", NoThrow, cb.cbArgs)
        ELSE Outcome(cleared, "true", NoThrow, <<>>)

\* Validator._check
DoCheck(le, id, val, onError) ==
    LET cleared == [le EXCEPT ![id] = NoError]
        res == Validate(id, val)
    IN  IF res.threw THEN Outcome(cleared, "threw", TypeError, <<>>)
        ELSE IF ~res.valid
        THEN LET cb == OnError([cleared EXCEPT ![id] = res.error], id, onError,
                               Message(res.error))
             IN  IF cb.ret = "threw" THEN cb
                 ELSE Outcome(cb.lastError, "false", NoThrow, cb.cbArgs)
        ELSE Outcome(cleared, "true", NoThrow, <<>>)

(***************************************************************************)
(* State.  root is the validator the program built; lastError holds every  *)
(* instance's lastError field; last records the latest call and what the   *)
(* caller saw of it.                                                       *)
(***************************************************************************)
Call(op, id, val, onError, context, res, out) ==
    [op |-> op, id |-> id, val |-> val, onError |-> onError, context |-> context,
     res |-> res, ret |-> out.ret, thrown |-> out.thrown, cbArgs |-> out.cbArgs]

NoCall ==
    Call("none", "", Undefined, NoCallback, NoContext, Valid(<<>>),
         Outcome(<<>>, "none", NoThrow, <<>>))

\* the child instances a composite holds
Children(id) ==
    LET self == Validators[id]
    IN  CASE self.kind = "object" ->
                {self.structure[k][2] : k \in 1..Len(self.structure)}
          [] self.kind = "array" -> {self.itemValidator}
          [] self.kind \in {"union", "intersection"} ->
                {self.validator1, self.validator2}
          [] self.kind \in {"nullable", "optional"} -> {self.validator}
          [] OTHER -> {}

\* the instances the program holds a reference to: the one it built and the
\* ones it passed to the factory
Held(r) == {r} \cup Children(r)

\* r and every instance below it
RECURSIVE Live(_)
Live(r) == {r} \cup UNION {Live(c) : c \in Children(r)}

ApiRoots == {"string", "equals2", "stringUnion", "arrNumber", "objA", "allowNullish"}

ApiValues ==
    {Undefined, Null, Str("a"), Str("c"), BigInt(10),
     Arr(<<Num(2)>>), Arr(<<Num(2), Str("a")>>),
     Obj(<< <<"val1", Num(2)>> >>), Obj(<< <<"val1", Str("a")>> >>)}
        \cup {Num(n) : n \in 2..MaxNum}

Callbacks ==
    {NoCallback, Callback("noop", Undefined)}
        \cup {Callback(op, v) : op \in {"check", "assert"}, v \in {Num(2), Str("a")}}

Contexts == {NoContext, Context(""), Context("user")}

Init ==
    /\ root \in ApiRoots
    /\ lastError = [id \in Live(root) |-> NoError]
    /\ last = NoCall

\* a validate that answers from the instance's lastError when one is stored
ValidateInCached(le, id, val) ==
    IF le[id] = NoError THEN Validate(id, val)
    ELSE Invalid(le[id], << <<id, val>> >>)

\* validator.validate(val) run while the instances' lastError fields are le:
\* lastError is private to the Validator base class, no validate method reads
\* or writes it
ValidateIn(le, id, val) == Validate(id, val)

\* validator.validate(val), called directly
ValidateCall(id, val) ==
    /\ last' = Call("validate", id, val, NoCallback, NoContext,
                    ValidateIn(lastError, id, val),
                    Outcome(lastError, "returned", NoThrow, <<>>))
    /\ UNCHANGED <<root, lastError>>

\* checkType(validator, val, onError)
CheckType(id, val, onError) ==
    LET out == DoCheck(lastError, id, val, onError)
    IN  /\ lastError' = out.lastError
        /\ last' = Call("checkType", id, val, onError, NoContext, Validate(id, val), out)
        /\ UNCHANGED root

\* assertType(validator, val, context)
AssertType(id, val, context) ==
    LET out == DoAssert(lastError, id, val, context)
    IN  /\ lastError' = out.lastError
        /\ last' = Call("assertType", id, val, NoCallback, context, Validate(id, val), out)
        /\ UNCHANGED root

Next ==
    \/ \E id \in Held(root), val \in ApiValues : ValidateCall(id, val)
    \/ \E id \in Held(root), val \in ApiValues, onError \in Callbacks :
            CheckType(id, val, onError)
    \/ \E id \in Held(root), val \in ApiValues, context \in Contexts :
            AssertType(id, val, context)

Spec == Init /\ [][Next]_vars

(***************************************************************************)
(* validate as a pure function: any instance, any input value.             *)
(***************************************************************************)
InitValidate ==
    /\ root \in Ids
    /\ lastError = [id \in Live(root) |-> NoError]
    /\ last = NoCall

NextValidate == \E val \in Values : ValidateCall(root, val)

SpecValidate == InitValidate /\ [][NextValidate]_vars

(***************************************************************************)
(* wrapPath called by a holder of an error object: the error of a validate *)
(* result, wrapped any number of times.                                    *)
(***************************************************************************)
\* wrapPath pushing the outer segments onto this.path in place
WrapPathThisInPlace(err, outerPath) == [err EXCEPT !.path = outerPath \o @]

\* the receiver after err.wrapPath(...outerPath): the method builds a new error
\* from a spread copy of this.path and assigns nothing
WrapPathThis(err, outerPath) == err

WrapRoots == {"number", "objNested", "arrInner"}
Segments == {".val1", "[0]"}

\* error.wrapPath(...outerPath) on the error object the last call left in hand:
\* before and after are the receiver's fields around the call
WrapPathCall(outerPath) ==
    /\ \/ last.op = "validate" /\ ~last.res.valid /\ ~last.res.threw
       \/ last.op = "wrapPath"
    /\ LET this == IF last.op = "validate" THEN last.res.error ELSE last.after
       IN  last' = [op |-> "wrapPath", id |-> last.id, val |-> last.val,
                    res |-> last.res, outerPath |-> outerPath, before |-> this,
                    returned |-> WrapPath(this, outerPath),
                    after |-> WrapPathThis(this, outerPath)]
    /\ UNCHANGED <<root, lastError>>

InitWrapPath ==
    /\ root \in WrapRoots
    /\ lastError = [id \in Live(root) |-> NoError]
    /\ last = NoCall

NextWrapPath ==
    \/ \E val \in Values : ValidateCall(root, val)
    \/ \E outerPath \in SeqsUpTo(Segments, MaxLen) : WrapPathCall(outerPath)

SpecWrapPath == InitWrapPath /\ [][NextWrapPath]_vars

(***************************************************************************)
(* Properties of the public API, checked under Spec.                       *)
(***************************************************************************)

C2_ReasonAfterRejection ==
    (last.op = "checkType" /\ last.ret = "false")
        => Reason(lastError[last.id]) = Message(last.res.error)

\* C3: checkType(validator, value) returns true exactly when validate(value) is
\* Ok, false exactly when it is Err, and never throws.
C3_CheckNeverThrows ==
    (last.op = "checkType" /\ last.onError = NoCallback)
        => /\ last.ret # "threw"
           /\ last.ret = "true" <=> last.res.valid
           /\ last.ret = "false" <=> (~last.res.valid /\ ~last.res.threw)

\* C4: assertType returns normally when validate is Ok; when validate is Err
\* with error e it raises a ValidationAssertionError with message
\* context + ": " + e.message, context defaulting to "Type assertion failed".
C4_AssertMessage ==
    last.op = "assertType"
        => /\ last.res.valid => (last.ret = "returned" /\ last.thrown = NoThrow)
           /\ (~last.res.valid /\ ~last.res.threw)
                => /\ last.ret = "threw"
                   /\ last.thrown.class = "ValidationAssertionError"
                   /\ last.thrown.message =
                        (IF last.context = NoContext THEN "Type assertion failed"
                         ELSE last.context.text)
                            \o ": " \o last.res.error.problem
                            \o (IF last.res.error.path = <<>> THEN ""
                                ELSE " ($" \o Join(last.res.error.path, "") \o ")")

\* assertType without a context raised for a rejection below the top level
C4_Witness ==
    /\ last.op = "assertType"
    /\ last.context = NoContext
    /\ last.thrown.message =
         "Type assertion failed: Expected type number, found type string ($.val1)"

(***************************************************************************)
(* Properties of validate, checked under SpecValidate.  The operators      *)
(* defined from here on are used by the properties only.                   *)
(***************************************************************************)
\* the latest call is a direct validate call on an instance of this class
ValidateOf(kind) == last.op = "validate" /\ Validators[last.id].kind = kind

\* the call validator.validate(val) as the call log records it
CallOf(id, val) == << <<id, val>> >>

\* the concatenation of the sequences calls[1], ..., calls[n]
RECURSIVE Flatten(_, _)
Flatten(calls, n) == IF n = 0 THEN <<>> ELSE Flatten(calls, n - 1) \o calls[n]

\* what the validator of the k-th schema key returns for the input's property
KeyResult(structure, val, k) == Validate(structure[k][2], GetProp(val, structure[k][1]))

\* C5: for an Object validator and a non-null object input, a schema key that is
\* absent while every key declared before it is present and accepted gives Err
\* 'Missing required property "<key>"' with an empty path, whatever validator
\* the key maps to; no input is accepted while a schema key is missing from it.
C5_MissingProperty ==
    (ValidateOf("object") /\ TypeOf(last.val) = "object" /\ last.val # Null)
        => LET structure == Validators[last.id].structure
           IN  /\ \A k \in 1..Len(structure) :
                     (/\ ~HasProp(last.val, structure[k][1])
                      /\ \A j \in 1..(k - 1) :
                            /\ HasProp(last.val, structure[j][1])
                            /\ KeyResult(structure, last.val, j).valid)
                        => /\ ~last.res.valid /\ ~last.res.threw
                           /\ last.res.error.problem =
                                "Missing required property \"" \o structure[k][1] \o "\""
                           /\ last.res.error.path = <<>>
               /\ last.res.valid
                    => \A k \in 1..Len(structure) : HasProp(last.val, structure[k][1])

\* a key mapped to an Optional validator is missing from the input
C5_Witness ==
    /\ ValidateOf("object")
    /\ last.id = "objOpt"
    /\ last.val.t = "object"
    /\ HasProp(last.val, "val2")
    /\ ~last.res.valid
    /\ last.res.error.problem = "Missing required property \"val1\""

\* a and b have the same schema keys with the same values
AgreeOnSchema(structure, a, b) ==
    \A k \in 1..Len(structure) :
        /\ HasProp(a, structure[k][1]) <=> HasProp(b, structure[k][1])
        /\ GetProp(a, structure[k][1]) = GetProp(b, structure[k][1])

\* C6: two object inputs that agree on every schema key and differ only in
\* properties the schema does not list get the same result, and no unlisted
\* property is passed to a child validator: the calls made are those of the
\* validators of the first n schema keys on those keys' values.
C6_StructurallyOpen ==
    (ValidateOf("object") /\ last.val.t = "object")
        => LET structure == Validators[last.id].structure
           IN  /\ \A other \in Objects :
                     AgreeOnSchema(structure, last.val, other)
                        => LET res == Validate(last.id, other)
                           IN  /\ res.valid = last.res.valid
                               /\ res.threw = last.res.threw
                               /\ res.error = last.res.error
                               /\ Tail(res.calls) = Tail(last.res.calls)
               /\ \E n \in 0..Len(structure) :
                     Tail(last.res.calls) =
                        Flatten([k \in 1..Len(structure) |->
                                    KeyResult(structure, last.val, k).calls], n)

\* an input with an unlisted property was accepted
C6_Witness ==
    /\ ValidateOf("object")
    /\ last.id = "objNN"
    /\ last.val.t = "object"
    /\ HasProp(last.val, "extra")
    /\ last.res.valid

\* C7: for an Object validator and an object input with every schema key
\* present, the result is Ok iff every key's validator accepts its value;
\* otherwise it is the error of the first failing key in schema order, problem
\* unchanged and ".<key>" prepended to the path, and the validators of the later
\* keys are not invoked.
C7_FirstFailingKey ==
    (/\ ValidateOf("object") /\ TypeOf(last.val) = "object" /\ last.val # Null
     /\ \A k \in 1..Len(Validators[last.id].structure) :
            HasProp(last.val, Validators[last.id].structure[k][1]))
        => LET structure == Validators[last.id].structure
               keyRes == [k \in 1..Len(structure) |-> KeyResult(structure, last.val, k)]
               keyCalls == [k \in 1..Len(structure) |-> keyRes[k].calls]
           IN  /\ last.res.valid <=> \A k \in 1..Len(structure) : keyRes[k].valid
               /\ last.res.valid
                    => last.res.calls = CallOf(last.id, last.val)
                                            \o Flatten(keyCalls, Len(structure))
               /\ \A k \in 1..Len(structure) :
                     (/\ ~keyRes[k].valid /\ ~keyRes[k].threw
                      /\ \A j \in 1..(k - 1) : keyRes[j].valid)
                        => /\ ~last.res.valid /\ ~last.res.threw
                           /\ last.res.error.problem = keyRes[k].error.problem
                           /\ last.res.error.path =
                                <<"." \o structure[k][1]>> \o keyRes[k].error.path
                           /\ last.res.calls = CallOf(last.id, last.val)
                                                   \o Flatten(keyCalls, k)

\* both keys' values are rejected, the input lists the second key first, and
\* the error is the first key's
C7_Witness ==
    /\ ValidateOf("object")
    /\ last.id = "objNN"
    /\ last.val = Obj(<< <<"val2", Str("a")>>, <<"val1", Str("a")>> >>)
    /\ ~last.res.valid
    /\ last.res.error.path = <<".val1">>
    /\ Len(last.res.calls) = 2

\* C8: for an Array validator with item validator V and an array input, the
\* result is Ok iff V accepts every element (the empty array is Ok for every
\* V); otherwise it is V's error for the lowest-index rejected element i,
\* problem unchanged and "[i]" prepended to the path, and the elements after i
\* are not validated.  Other input is rejected with "Expected an array, found
\* <descriptor>".
C8_FirstFailingElement ==
    ValidateOf("array")
        => LET item == Validators[last.id].itemValidator
           IN  IF last.val.t = "array"
               THEN LET items == last.val.items
                        itemRes == [k \in 1..Len(items) |-> Validate(item, items[k])]
                        itemCalls == [k \in 1..Len(items) |-> itemRes[k].calls]
                    IN  /\ last.res.valid <=> \A k \in 1..Len(items) : itemRes[k].valid
                        /\ last.res.valid
                             => last.res.calls = CallOf(last.id, last.val)
                                                     \o Flatten(itemCalls, Len(items))
                        /\ \A k \in 1..Len(items) :
                              (/\ ~itemRes[k].valid /\ ~itemRes[k].threw
                               /\ \A j \in 1..(k - 1) : itemRes[j].valid)
                                 => /\ ~last.res.valid /\ ~last.res.threw
                                    /\ last.res.error.problem = itemRes[k].error.problem
                                    /\ last.res.error.path =
                                         <<"[" \o ToString(k - 1) \o "]">>
                                             \o itemRes[k].error.path
                                    /\ last.res.calls = CallOf(last.id, last.val)
                                                            \o Flatten(itemCalls, k)
               ELSE /\ ~last.res.valid /\ ~last.res.threw
                    /\ last.res.error.path = <<>>
                    /\ last.res.error.problem =
                         "Expected an array, found "
                             \o (IF last.val.t = "null" THEN "null"
                                 ELSE IF last.val.t = "object" THEN "type object"
                                 ELSE "type " \o last.val.t)
                    /\ last.res.calls = CallOf(last.id, last.val)

\* both elements are rejected, the error is the first one's and the second
\* was not validated
C8_Witness ==
    /\ ValidateOf("array")
    /\ last.id = "arrInner"
    /\ last.val = Arr(<<InnerBad, Str("a")>>)
    /\ last.res.error = [problem |-> "Expected type number, found type string",
                         path |-> <<"[0]", ".val3">>]
    /\ Len(last.res.calls) = 3

\* The route to the failing leaf of a rejected input, found from the verdicts
\* of the children alone: the Object/Array levels entered, outermost first, and
\* the validator and value the rejection comes from.  Optional, Nullable and
\* Intersection are passed through; any other validator is where the route ends.
RECURSIVE Route(_, _)
Route(id, val) ==
    LET self == Validators[id]
        here == [segs |-> <<>>, leaf |-> id, at |-> val]
    IN  CASE self.kind = "object" ->
                IF TypeOf(val) # "object" \/ val = Null THEN here
                ELSE LET bad == {k \in 1..Len(self.structure) :
                                    \/ ~HasProp(val, self.structure[k][1])
                                    \/ ~KeyResult(self.structure, val, k).valid}
                         k == CHOOSE k \in bad : \A j \in bad : k <= j
                         key == self.structure[k][1]
                     IN  IF ~HasProp(val, key) THEN here
                         ELSE LET below == Route(self.structure[k][2], GetProp(val, key))
                              IN  [below EXCEPT !.segs = <<"." \o key>> \o @]
          [] self.kind = "array" ->
                IF val.t # "array" THEN here
                ELSE LET bad == {k \in 1..Len(val.items) :
                                    ~Validate(self.itemValidator, val.items[k]).valid}
                         k == CHOOSE k \in bad : \A j \in bad : k <= j
                         below == Route(self.itemValidator, val.items[k])
                     IN  [below EXCEPT !.segs = <<"[" \o ToString(k - 1) \o "]">> \o @]
          [] self.kind \in {"nullable", "optional"} -> Route(self.validator, val)
          [] self.kind = "intersection" ->
                IF ~Validate(self.validator1, val).valid
                THEN Route(self.validator1, val)
                ELSE Route(self.validator2, val)
          [] OTHER -> here

\* C9: for a nesting of Object and Array validators (Optional, Nullable and
\* Intersection in between) that fails at an inner leaf, the error's path has
\* exactly one segment per Object/Array level traversed, outermost first, and
\* its message is the leaf's problem followed by " ($" + the concatenated
\* segments + ")"; with an empty path the message is the problem alone.
C9_PathIsRoute ==
    (last.op = "validate" /\ ~last.res.valid /\ ~last.res.threw)
        => LET route == Route(last.id, last.val)
               leaf == Validate(route.leaf, route.at)
           IN  /\ ~leaf.valid /\ ~leaf.threw
               /\ leaf.error.path = <<>>
               /\ last.res.error.problem = leaf.error.problem
               /\ last.res.error.path = route.segs
               /\ Message(last.res.error) =
                    (IF route.segs = <<>> THEN leaf.error.problem
                     ELSE leaf.error.problem \o " ($" \o Join(route.segs, "") \o ")")

\* an Object, an Array and an Object level, with Optional, Nullable and
\* Intersection between the first two
C9_Witness ==
    /\ last.op = "validate"
    /\ last.id = "objWrapped"
    /\ ~last.res.valid
    /\ Message(last.res.error) = "Expected type number, found type string ($.val2[1].val3)"

\* C10: Union(A, B).validate(v) is Ok iff A or B accepts v; when both reject,
\* the result is a new error with problem "No validators were satisfied (<A's
\* error message>; <B's error message>)" and an empty path; B is evaluated
\* exactly when A rejects.
C10_Union ==
    ValidateOf("union")
        => LET self == Validators[last.id]
               res1 == Validate(self.validator1, last.val)
               res2 == Validate(self.validator2, last.val)
               rejects1 == ~res1.valid /\ ~res1.threw
               rejects2 == ~res2.valid /\ ~res2.threw
           IN  /\ last.res.valid <=> (res1.valid \/ (rejects1 /\ res2.valid))
               /\ (rejects1 /\ rejects2)
                    => /\ ~last.res.valid /\ ~last.res.threw
                       /\ last.res.error.path = <<>>
                       /\ last.res.error.problem =
                            "No validators were satisfied (" \o Message(res1.error)
                                \o "; " \o Message(res2.error) \o ")"
               /\ last.res.calls =
                    CallOf(last.id, last.val) \o res1.calls
                        \o (IF rejects1 THEN res2.calls ELSE <<>>)

\* both branches reject, the first below an Object level
C10_Witness ==
    /\ ValidateOf("union")
    /\ last.id = "unionObjArr"
    /\ last.res.error =
         [problem |-> "No validators were satisfied (Expected type number, found "
                          \o "type string ($.val3); Expected an array, found type object)",
          path |-> <<>>]

\* C11: Intersection(A, B).validate(v) is Ok iff A and B both accept v.  When A
\* rejects, the result is A's own error (same problem, same path) and B is not
\* evaluated; when A accepts and B rejects, the result is B's own error.  No
\* message is combined and no path segment is added.
C11_Intersection ==
    ValidateOf("intersection")
        => LET self == Validators[last.id]
               res1 == Validate(self.validator1, last.val)
               res2 == Validate(self.validator2, last.val)
               rejects1 == ~res1.valid /\ ~res1.threw
               rejects2 == ~res2.valid /\ ~res2.threw
           IN  /\ last.res.valid <=> (res1.valid /\ res2.valid)
               /\ rejects1
                    => /\ ~last.res.valid /\ ~last.res.threw
                       /\ last.res.error = res1.error
                       /\ last.res.calls = CallOf(last.id, last.val) \o res1.calls
               /\ (res1.valid /\ rejects2)
                    => /\ ~last.res.valid /\ ~last.res.threw
                       /\ last.res.error = res2.error
                       /\ last.res.calls =
                            CallOf(last.id, last.val) \o res1.calls \o res2.calls

\* both sides reject below an Object level; the result is the first side's
\* error with its path, and the second side's key was never validated
C11_Witness ==
    /\ ValidateOf("intersection")
    /\ last.id = "interObj"
    /\ ~Validate("objB", last.val).valid /\ ~Validate("objB", last.val).threw
    /\ last.res.error =
         [problem |-> "Expected type number, found type string", path |-> <<".val1">>]
    /\ Len(last.res.calls) = 3

\* C12: Optional(V).validate(v) is Ok when v is undefined and otherwise is
\* exactly V.validate(v), error included; Nullable(V).validate(v) is Ok when v
\* is null and otherwise is exactly V.validate(v).  So Optional(V) gives V's
\* verdict on null and Nullable(V) gives V's verdict on undefined.
C12_OptionalNullable ==
    (ValidateOf("optional") \/ ValidateOf("nullable"))
        => LET self == Validators[last.id]
               passes == IF self.kind = "optional" THEN Undefined ELSE Null
               res == Validate(self.validator, last.val)
           IN  IF last.val = passes
               THEN last.res = Valid(CallOf(last.id, last.val))
               ELSE last.res = [res EXCEPT !.calls = CallOf(last.id, last.val) \o @]

\* Optional(number) on null: the number validator's own rejection
C12_Witness ==
    /\ ValidateOf("optional")
    /\ last.id = "optNumber"
    /\ last.val = Null
    /\ last.res.error = [problem |-> "Expected type number, found null", path |-> <<>>]

\* the validators built by ty.allowNullish, each with the validator V it was
\* given and an instance built as Optional(Nullable(V))
NullishOf ==
    ("allowNullish" :> [inner |-> "number", composed |-> "optNullNumber"]) @@
    ("nullishInner" :> [inner |-> "inner", composed |-> "optNullInner"])

\* a validate result without its call log
Verdict(res) == [valid |-> res.valid, threw |-> res.threw, error |-> res.error]

\* C13: allowNullish(V) behaves exactly like Optional(Nullable(V)): it accepts
\* undefined, null and everything V accepts; on any other value the result is
\* V's own error, with the same message and no added path.
C13_AllowNullish ==
    (last.op = "validate" /\ last.id \in DOMAIN NullishOf)
        => LET of == NullishOf[last.id]
               resV == Validate(of.inner, last.val)
           IN  /\ Verdict(last.res) = Verdict(Validate(of.composed, last.val))
               /\ last.val \in {Undefined, Null} => last.res.valid
               /\ last.val \notin {Undefined, Null}
                    => Verdict(last.res) = Verdict(resV)

\* allowNullish of an Object validator rejects with the Object validator's own
\* error, path included
C13_Witness ==
    /\ last.op = "validate"
    /\ last.id = "nullishInner"
    /\ last.res.error =
         [problem |-> "Expected type number, found type string", path |-> <<".val3">>]

\* the type tags ty offers primitive validators for
PrimitiveTags == {"undefined", "boolean", "number", "bigint", "string", "symbol"}

\* C14: a primitive validator with tag T (undefined, boolean, number, bigint,
\* string, symbol) is Ok iff the runtime type tag of v is T; otherwise the error
\* has an empty path and the message "Expected type <T>, found null" for null
\* and "Expected type <T>, found type <tag>" for every other value.
C14_Primitive ==
    ValidateOf("simple")
        => LET T == Validators[last.id].typeStr
               tag == TypeOf(last.val)
           IN  /\ T \in PrimitiveTags
               /\ ~last.res.threw
               /\ last.res.valid <=> tag = T
               /\ tag # T
                    => /\ last.res.error.path = <<>>
                       /\ Message(last.res.error) = last.res.error.problem
                       /\ last.res.error.problem =
                            IF last.val = Null
                            THEN "Expected type " \o T \o ", found null"
                            ELSE "Expected type " \o T \o ", found type " \o tag

\* null given to the symbol validator
C14_Witness ==
    /\ ValidateOf("simple")
    /\ last.id = "symbol"
    /\ last.val = Null
    /\ last.res.error = [problem |-> "Expected type symbol, found null", path |-> <<>>]

\* C15: validate never raises: for every validator built from the ty factories
\* (equals, stringUnion and instanceof included) and every value (undefined,
\* null, symbols, bigints, class-less or cyclic objects) the call returns Ok or
\* Err.
C15_ValidateNeverRaises ==
    last.op = "validate" => ~last.res.threw

\* a string between double quotes
Quoted(s) == "\"" \o s \o "\""

AsConstructed == [id \in Live(root) |-> NoError]

C18_WrapPathPure ==
    last.op = "wrapPath"
        => /\ last.returned.problem = last.before.problem
           /\ last.returned.path = last.outerPath \o last.before.path
           /\ last.after = last.before
           /\ last.after = last.res.error
           /\ Message(last.after) = Message(last.res.error)

\* an error with a path of its own, wrapped with two outer segments
C18_Witness ==
    /\ last.op = "wrapPath"
    /\ last.res.error =
         [problem |-> "Expected type number, found type string", path |-> <<".val2", ".val3">>]
    /\ last.outerPath = <<"[0]", ".val1">>
    /\ Message(last.returned) =
         "Expected type number, found type string ($[0].val1.val2.val3)"
    /\ Message(last.after) = "Expected type number, found type string ($.val2.val3)"

\* C19: in checkType(validator, value, onError), onError is invoked exactly
\* once, with the rejection's full message string, when validate returns Err,
\* and never when it returns Ok; the invocation has happened by the time
\* checkType returns false, and also when the callback's own exception ends
\* the call instead.
C19_OnError ==
    (last.op = "checkType" /\ last.onError.op # "absent")
        => /\ (~last.res.valid /\ ~last.res.threw)
                => last.cbArgs = <<Message(last.res.error)>>
           /\ last.res.valid => (last.cbArgs = <<>> /\ last.ret = "true")
           /\ last.ret = "false" => Len(last.cbArgs) = 1

\* a rejection below an Object level reported to a callback that throws: the
\* callback got the message with the location and checkType did not return
C19_Witness ==
    /\ last.op = "checkType"
    /\ last.onError.op = "assert"
    /\ last.ret = "threw"
    /\ last.cbArgs = <<"Expected type number, found type string ($.val1)">>

\* what every instance other than the called one answers to `reason` is the
\* same before and after the step
OthersKeepReason ==
    \A id \in Live(root) \ {last'.id} :
        Reason(lastError'[id]) = Reason(lastError[id])

\* C20: a direct validate call never changes any validator's stored last
\* error; checkType / assertType on a composite changes only that composite's
\* own last error: the reason of every child, and of every other instance, is
\* what it was before the call.
C20_ChildrenKeepReason ==
    [][/\ last'.op = "validate"
            => \A id \in Live(root) : Reason(lastError'[id]) = Reason(lastError[id])
       /\ last'.op \in {"checkType", "assertType"} => OthersKeepReason]_vars

\* an array validator rejected for its second element holds the reason while
\* its item validator, which produced the error, still has none
C20_Witness ==
    /\ last.op \in {"checkType", "assertType"}
    /\ last.id = "arrNumber"
    /\ Children(last.id) = {"number"}
    /\ Reason(lastError["arrNumber"]) = "Expected type number, found type string ($[1])"
    /\ Reason(lastError["number"]) = "Unknown reason"

\* C21: the stored last error always describes the most recent completed
\* checkType / assertType call on that instance, the call that returned or
\* threw last: reason is "Unknown reason" when that call accepted its value,
\* even if an earlier call was rejected, and the message of that call's error,
\* without the context prefix, when it rejected its value.
C21_DescribesLastCall ==
    (last.op \in {"checkType", "assertType"} /\ ~last.res.threw)
        => Reason(lastError[last.id]) =
             (IF last.res.valid THEN "Unknown reason" ELSE Message(last.res.error))

\* an error as text: the problem, then " ($" + the segments + ")" when the
\* error has a path
Rendered(err) ==
    IF err.path = <<>> THEN err.problem
    ELSE err.problem \o " ($" \o Join(err.path, "") \o ")"

\* C22: a Union failure flattens its branches' locations into text.  When a
\* validation fails at a Union, alone or below Object/Array levels, the outer
\* error's problem is the Union's, embedding each branch's rendered message
\* with that branch's "($...)" suffix, and the outer error's path holds exactly
\* the segments of the levels above the Union: the Union's own error has an
\* empty path and no segment of a level below the Union is in the outer path.
C22_UnionFlattens ==
    (/\ last.op = "validate" /\ ~last.res.valid /\ ~last.res.threw
     /\ Validators[Route(last.id, last.val).leaf].kind = "union")
        => LET route == Route(last.id, last.val)
               union == Validators[route.leaf]
               res1 == Validate(union.validator1, route.at)
               res2 == Validate(union.validator2, route.at)
           IN  /\ Validate(route.leaf, route.at).error.path = <<>>
               /\ last.res.error.path = route.segs
               /\ last.res.error.problem =
                    "No validators were satisfied (" \o Rendered(res1.error)
                        \o "; " \o Rendered(res2.error) \o ")"
               /\ \A below \in {res1.error.path, res2.error.path} \ {<<>>} :
                    last.res.error.path # route.segs \o below

\* a Union below an Object level whose first branch failed one level further
\* down: the inner location is text in the problem, the path has the outer
\* segment only
C22_Witness ==
    /\ last.op = "validate"
    /\ last.id = "objUnion"
    /\ ~last.res.valid /\ ~last.res.threw
    /\ last.res.error.path = <<".val1">>
    /\ Message(last.res.error) =
         "No validators were satisfied (Expected type number, found type string "
             \o "($.val3); Expected an array, found type object) ($.val1)"

====
